---- MODULE Spec2Model ----
(***************************************************************************)
(* Verification model of the HSR-Index repository:                         *)
(*   - "Auxiliary scripts/genbi.py": the taxonomy and sequence harvester   *)
(*     (ITIS hierarchy descent, GenBank searches, extract_info filter).    *)
(*   - "Priorization.py": the four-criterion species priority scorer.      *)
(* Four specifications share the variables below:                          *)
(*   Spec          main() of genbi.py, one extract_info call per step      *)
(*   SpecSearch    the request loops of the four search functions          *)
(*   SpecResolver  obtener_especies_desde_tsn and obtener_sinonimias       *)
(*   SpecScore     the four score functions and the scoring of one row     *)
(*   SpecPipeline  prioritize_species from read_csv to its return          *)
(***************************************************************************)
EXTENDS Integers, Sequences, FiniteSets, TLC

VARIABLES
    \* ---- main() of genbi.py
    pc,                        \* position of main()
    incluir_mitocondriales,    \* answer to the metagenome prompt, lower-cased
    especies_con_sinonimias,   \* list returned by obtener_especies_desde_tsn
    nombres_buscados,          \* set of names already searched
    especie,                   \* loop variable of "for especie in ..." (0 = unbound)
    nombre_valido,             \* local nombre_valido ("" = unbound)
    cursor,                    \* index of the loop that is running
    pending,                   \* ids of the current id list not yet iterated
    info_secuencias,           \* global dict: accession -> info
    df_final,                  \* rows appended to df_final, in order
    lastCall,                  \* the extract_info call of the step just taken, if any
    searched,                  \* names passed to search_genbank, in order
    fetched,                   \* number of fetch_sequence calls so far
    families,                  \* result of get_families_from_order
    genera,                    \* result of get_genera_from_family for the current family
    gcursor,                   \* index of the genus loop
    files,                     \* files written so far
    info_taxon,                \* outcome of obtener_info_taxonomica ("" = not called)
    respuesta,                 \* local respuesta of main ("" = unbound)
    \* ---- search functions
    s_fn,          \* the search function that is running
    s_variant,     \* index of the gene variant it is at
    s_retstart,    \* its retstart
    s_count,       \* Count of the current query's last response
    s_ids,         \* ids it has collected, as blocks of one response each
    s_pages,       \* retstart of every request of the current query
    s_at,          \* its position
    s_hits,        \* queries of this call that found something
    s_log,         \* the search functions that have returned, in order
    s_last,        \* what the last step was: call, ok, threw, return
    \* ---- resolver
    r_tree,        \* the hierarchy of the taxonomy service
    r_stack,       \* frames of obtener_especies_recursivamente
    r_pc,          \* position of obtener_especies_desde_tsn
    r_especies,    \* its list especies
    r_intento,     \* loop variable intento of the running obtener_sinonimias
    r_visits,      \* hierarchy requests made, per node
    r_last,        \* the last obtener_sinonimias call that ended
    r_post,        \* index of the loop of lines 91-93
    \* ---- scorer
    df, df_ssp245, df_ssp585, p_pc,
    df_ssp245_sorted,   \* df_ssp245 after sort_values; index is the label it had before
    df_ssp585_sorted,
    comparison_df,      \* rows of the comparison table; their order is not kept
    rank_comparison,    \* rows of the rank-change table; their order is not kept
    p_return            \* what prioritize_species handed to its caller

mainVars == <<pc, incluir_mitocondriales, especies_con_sinonimias, nombres_buscados,
              especie, nombre_valido, cursor, pending, info_secuencias, df_final,
              lastCall, searched, fetched, families, genera, gcursor, files,
              info_taxon, respuesta>>
searchVars == <<s_fn, s_variant, s_retstart, s_count, s_ids, s_pages, s_at, s_hits,
                s_log, s_last>>
resolverVars == <<r_tree, r_stack, r_pc, r_especies, r_intento, r_visits, r_last, r_post>>
scoreVars == <<df, df_ssp245, df_ssp585, p_pc, df_ssp245_sorted, df_ssp585_sorted,
               comparison_df, rank_comparison, p_return>>
vars == <<mainVars, searchVars, resolverVars, scoreVars>>

(***************************************************************************)
(* Strings: str.lower(), str.strip() and the substring test "t in s".      *)
(***************************************************************************)
UpperChars == "ABCDEFGHIJKLMNOPQRSTUVWXYZ"
LowerChars == "abcdefghijklmnopqrstuvwxyz"

LowerChar(c) ==
    IF \E i \in 1..26 : SubSeq(UpperChars, i, i) = c
    THEN LET i == CHOOSE j \in 1..26 : SubSeq(UpperChars, j, j) = c
         IN  SubSeq(LowerChars, i, i)
    ELSE c

RECURSIVE Lower(_)
Lower(s) ==
    IF Len(s) = 0 THEN ""
    ELSE LowerChar(SubSeq(s, 1, 1)) \o Lower(SubSeq(s, 2, Len(s)))

UpperChar(c) ==
    IF \E i \in 1..26 : SubSeq(LowerChars, i, i) = c
    THEN LET i == CHOOSE j \in 1..26 : SubSeq(LowerChars, j, j) = c
         IN  SubSeq(UpperChars, i, i)
    ELSE c

RECURSIVE Upper(_)
Upper(s) ==
    IF Len(s) = 0 THEN ""
    ELSE UpperChar(SubSeq(s, 1, 1)) \o Upper(SubSeq(s, 2, Len(s)))

RECURSIVE Strip(_)
Strip(s) ==
    IF Len(s) = 0 THEN ""
    ELSE IF SubSeq(s, 1, 1) = " " THEN Strip(SubSeq(s, 2, Len(s)))
    ELSE IF SubSeq(s, Len(s), Len(s)) = " " THEN Strip(SubSeq(s, 1, Len(s) - 1))
    ELSE s

\* Python's "t in s" for strings
Contains(s, t) ==
    \E i \in 1..(Len(s) - Len(t) + 1) : SubSeq(s, i, i + Len(t) - 1) = t

Range(f) == {f[i] : i \in DOMAIN f}

(***************************************************************************)
(* Module constants of genbi.py                                            *)
(***************************************************************************)
gene_variants == <<
    "cytochrome oxidase subunit 1", "cytochrome c oxidase I", "COI", "COX1",
    "MTCO1", "MT-CO1", "cytochrome c oxidase subunit I", "coi", "(coi)",
    "(coi) gene", "cytochrome oxidase subunit 1 (COI) gene",
    "cytochrome b", "Cytochrome b", "CYTB", "cytb", "cytochrome B", "MT-CYB",
    "mt-cyb", "cytochrome b gene", "(cytb)", "(cytb) gene", "mt-Cytb" >>

coi_variants == SubSeq(gene_variants, 1, 11)
cytb_variants == SubSeq(gene_variants, 12, Len(gene_variants))

unwanted_terms == <<"von willebrand factor", "nad", "NADH", "12s", "16s", "rRNA",
                    "tRNA", "ribosomal", "COX2", "COXII", "COXIII", "COX3">>

MinBases == 590
MaxBasesNoMito == 1300
CytbMin == 1000
CytbMax == 1200

FromITIS == "From ITIS"
DirectSearch == "Direct GenBank Search"
FamilySearch == "Family Search"
GenusSearch == "Genus Search"

(***************************************************************************)
(* The sequence database: what fetch_sequence returns for each id a search *)
(* can return.  Each record carries the fields extract_info reads.         *)
(***************************************************************************)
GenBank == <<
    [id |-> "AB000001.1", description |-> "Mus musculus COI gene, partial cds",
     organism |-> "Mus musculus", len |-> 590, features |-> TRUE],
    [id |-> "AB000002.1", description |-> "Mus musculus cytochrome b (cytb) gene",
     organism |-> "Mus Musculus", len |-> 1200, features |-> TRUE],
    [id |-> "AB000003.1", description |-> "Mus domesticus CYTB gene",
     organism |-> "Mus domesticus", len |-> 1201, features |-> TRUE],
    [id |-> "AB000004.1", description |-> "Mus spretus COX1 gene",
     organism |-> "Mus spretus", len |-> 589, features |-> TRUE],
    [id |-> "AB000005.1", description |-> "Mus spretus coi, mitochondrial",
     organism |-> "Mus spretus", len |-> 1301, features |-> TRUE],
    [id |-> "AB000006.1", description |-> "Mus musculus 16S ribosomal RNA gene",
     organism |-> "Mus musculus", len |-> 700, features |-> TRUE],
    [id |-> "AB000007.1", description |-> "Mus musculus COI gene and tRNA-Ser",
     organism |-> "Mus musculus", len |-> 650, features |-> TRUE],
    [id |-> "AB000008.1", description |-> "Mus domesticus D-loop",
     organism |-> "Mus domesticus", len |-> 900, features |-> TRUE],
    [id |-> "AB000009.1", description |-> "Mus musculus COI gene",
     organism |-> "Mus musculus", len |-> 700, features |-> FALSE],
    [id |-> "AB000010.1", description |-> "Mus musculus COI and Cytochrome B genes",
     organism |-> "Mus musculus", len |-> 1000, features |-> TRUE],
    [id |-> "AB000011.1", description |-> "Mus spretus cytb gene",
     organism |-> "Mus spretus", len |-> 999, features |-> TRUE] >>

UIDs == DOMAIN GenBank

(***************************************************************************)
(* extract_info                                                            *)
(***************************************************************************)
\* The strings of a run, lower-cased once: str.lower() applied to the
\* descriptions, organisms, names and answers the run can meet.
Descriptions == { GenBank[u].description : u \in UIDs }
Organisms == { GenBank[u].organism : u \in UIDs }
KnownNames ==
    LET names == Organisms \cup {"Mus musculus", "Mus spretus", "Mus domesticus"}
    IN  names \cup { n \o "*" : n \in names }
LoweredText == [s \in Descriptions \cup KnownNames \cup {"", "yes", "no"} |-> Lower(s)]
LowerOf(s) == IF s \in DOMAIN LoweredText THEN LoweredText[s] ELSE Lower(s)
cytb_lower == [i \in DOMAIN cytb_variants |-> Lower(cytb_variants[i])]
coi_lower == [i \in DOMAIN coi_variants |-> Lower(coi_variants[i])]
unwanted_lower == [i \in DOMAIN unwanted_terms |-> Lower(unwanted_terms[i])]

\* line 181: accession in info_secuencias
AlreadyRegisteredNoDedup(accession, registry) == FALSE
AlreadyRegistered(accession, registry) == accession \in DOMAIN registry

\* lines 184-186: the stored species name
SpeciesName(record, valid_species_name, search_method) ==
    IF search_method = FromITIS
       /\ LowerOf(record.organism) # LowerOf(valid_species_name)
    THEN valid_species_name \o "*"
    ELSE valid_species_name

\* the two lists tested in the other order
ClassifyGeneCoiFirst(description) ==
    LET description_lower == LowerOf(description)
    IN  IF \E i \in DOMAIN coi_variants : Contains(description_lower, coi_lower[i])
        THEN "COI"
        ELSE IF \E i \in DOMAIN cytb_variants : Contains(description_lower, cytb_lower[i])
        THEN "CYTB"
        ELSE "Unknown"

\* lines 238-247 (and 188-194): gene classification of a description
ClassifyGene(description) ==
    LET description_lower == LowerOf(description)
    IN  IF \E i \in DOMAIN cytb_variants : Contains(description_lower, cytb_lower[i])
        THEN "CYTB"
        ELSE IF \E i \in DOMAIN coi_variants : Contains(description_lower, coi_lower[i])
        THEN "COI"
        ELSE "Unknown"

\* line 230
TooShort(num_bases) == num_bases < MinBases

\* lines 234-236
TooLongForExclusion(incluir, num_bases) ==
    LowerOf(incluir) = "No" /\ num_bases > MaxBasesNoMito

\* line 244
CytbOutOfBandNoUpper(num_bases) == num_bases < CytbMin
CytbOutOfBand(num_bases) == num_bases < CytbMin \/ num_bases > CytbMax

\* lines 250-253
HasUnwantedTermCaseSensitive(description) ==
    \E i \in DOMAIN unwanted_terms :
        Contains(LowerOf(description), unwanted_terms[i])
HasUnwantedTerm(description) ==
    \E i \in DOMAIN unwanted_terms :
        Contains(LowerOf(description), unwanted_lower[i])

\* the two description tests, evaluated once per description of the database
GeneOf == [d \in Descriptions |-> ClassifyGene(d)]
UnwantedIn == [d \in Descriptions |-> HasUnwantedTerm(d)]

None == [kind |-> "none"]
Raised == [kind |-> "raised"]

\* extract_info(record, valid_species_name, search_method, incluir_mitocondriales)
\* evaluated against the registry; the caller stores the row it returns.
ExtractInfo(record, valid_species_name, search_method, incluir, registry) ==
    LET accession == record.id
        species_name == SpeciesName(record, valid_species_name, search_method)
        num_bases == record.len
        gene == GeneOf[record.description]
    IN  IF AlreadyRegistered(accession, registry) THEN None
        ELSE IF ~record.features THEN Raised          \* record.features[0], line 207
        ELSE IF TooShort(num_bases) THEN None
        ELSE IF TooLongForExclusion(incluir, num_bases) THEN None
        ELSE IF gene = "CYTB" /\ CytbOutOfBand(num_bases) THEN None
        ELSE IF UnwantedIn[record.description] THEN None
        ELSE [kind |-> "row",
              info |-> [ACCESSION |-> accession, SPECIES_NAME |-> species_name,
                        Synonims |-> search_method, GENE |-> gene,
                        NUM_BASES |-> num_bases]]

\* a registration made before the filters: every call that does not raise leaves
\* an entry
RegistryWrittenBeforeFilters(accession, out, registry) ==
    IF out.kind = "raised" \/ accession \in DOMAIN registry THEN registry
    ELSE (accession :> (IF out.kind = "row" THEN out.info
                        ELSE [ACCESSION |-> accession, SPECIES_NAME |-> "",
                              Synonims |-> "", GENE |-> "Unknown", NUM_BASES |-> 0]))
         @@ registry
\* line 276: the global registry after a call of extract_info that ended with out
Registry(accession, out, registry) ==
    IF out.kind = "row" THEN (accession :> out.info) @@ registry ELSE registry

(***************************************************************************)
(* main() of genbi.py                                                      *)
(***************************************************************************)
MaxFetch == 2      \* fetch_sequence calls in one run

respuestas_afirmativas == {"YES", "yes", "Yes", "Y", "y", "si", "SI"}
respuestas_negativas == {"NO", "no", "No", "N", "n", "NOT", "Not", "not"}

\* what the user may type at the two prompts
ConfirmAnswers == {"Yes", " y ", "No", "maybe"}
MetagenomeAnswers == {"Yes", "No"}

\* outcomes of obtener_info_taxonomica: a rank and a name, the ValueError of
\* lines 119/131, or an exception of requests
RootLookups == {"ok", "ValueError", "RequestException"}

SpeciesPool ==
    { [tsn |-> 101, nombre_cientifico |-> "Mus musculus",
       sinonimias |-> <<"Mus domesticus">>],
      [tsn |-> 102, nombre_cientifico |-> "Mus spretus",
       sinonimias |-> <<"Mus musculus">>] }

\* lists of distinct species, as a descent of a tree returns them
SpeciesLists ==
    { l \in UNION { [1..n -> SpeciesPool] : n \in 0..Cardinality(SpeciesPool) } :
        \A i, j \in DOMAIN l : i # j => l[i] # l[j] }

\* the families of the order and the genera of a family, as the taxonomy database
\* lists them; a request that fails part-way returns a prefix
FamilyNames == <<"Muridae">>
GenusNames == <<"Mus">>

NA == "NA"
\* lines 455 and 473: the row added when a search finds nothing
NoSequencesRow(name, note) ==
    [ACCESSION |-> NA, SPECIES_NAME |-> name, Synonims |-> note,
     GENE |-> NA, NUM_BASES |-> -1]

\* number of ids a search may return with the fetches left in this run
IdCounts == 0..(MaxFetch - fetched)

NoCall == [uid |-> 0, method |-> "", result |-> ""]

\* main() touches none of the other specifications' variables
OnlyMain == UNCHANGED <<searchVars, resolverVars, scoreVars>>

promptVars == <<info_taxon, respuesta>>

InitMain ==
    /\ info_taxon = ""
    /\ respuesta = ""
    /\ pc = "start"
    /\ incluir_mitocondriales = ""
    /\ especies_con_sinonimias = <<>>
    /\ nombres_buscados = {}
    /\ especie = 0
    /\ nombre_valido = ""
    /\ cursor = 0
    /\ pending = 0
    /\ info_secuencias = <<>>
    /\ df_final = <<>>
    /\ lastCall = NoCall
    /\ searched = <<>>
    /\ fetched = 0
    /\ families = <<>>
    /\ genera = <<>>
    /\ gcursor = 0
    /\ files = {}

\* lines 409-414: the answer lets main go on
ContinuesUnlessNegative(answer) == answer \notin respuestas_negativas
Continues(answer) ==
    answer \notin respuestas_negativas /\ answer \in respuestas_afirmativas

\* lines 402-417: root lookup and confirmation prompt
Start ==
    /\ OnlyMain
    /\ lastCall' = NoCall
    /\ pc = "start"
    /\ \E lookup \in RootLookups :
         /\ info_taxon' = lookup
         /\ IF lookup = "RequestException"
            THEN pc' = "crashed" /\ respuesta' = respuesta
            ELSE IF lookup = "ValueError"
            THEN pc' = "done" /\ respuesta' = respuesta
            ELSE \E answer \in ConfirmAnswers :
                   /\ respuesta' = Lower(Strip(answer))
                   /\ pc' = IF Continues(respuesta') THEN "ask" ELSE "done"
    /\ UNCHANGED <<incluir_mitocondriales, especies_con_sinonimias, nombres_buscados,
                   especie, nombre_valido, cursor, pending, info_secuencias, df_final,
                   searched, fetched, families, genera, gcursor, files>>

\* line 419: metagenome prompt
AskMetagenome ==
    /\ OnlyMain
    /\ UNCHANGED promptVars
    /\ lastCall' = NoCall
    /\ pc = "ask"
    /\ \E answer \in MetagenomeAnswers :
         incluir_mitocondriales' = Lower(Strip(answer))
    /\ pc' = "resolve"
    /\ UNCHANGED <<especies_con_sinonimias, nombres_buscados,
                   especie, nombre_valido, cursor, pending, info_secuencias, df_final,
                   searched, fetched, families, genera, gcursor, files>>

\* lines 423-434: hierarchy count, descent and the species file
Resolve ==
    /\ OnlyMain
    /\ UNCHANGED promptVars
    /\ lastCall' = NoCall
    /\ pc = "resolve"
    /\ \/ /\ especies_con_sinonimias' \in SpeciesLists
          /\ files' = files \cup {"Species_and_synonyms.xlsx"}
          /\ pc' = "species"
          /\ cursor' = 1
       \/ /\ pc' = "crashed"          \* a hierarchy request raised
          /\ UNCHANGED <<especies_con_sinonimias, files, cursor>>
    /\ UNCHANGED <<incluir_mitocondriales, nombres_buscados,
                   especie, nombre_valido, pending, info_secuencias, df_final,
                   searched, fetched, families, genera, gcursor>>

\* lines 438-443, 454-456: one iteration head of "for especie in ..."
SpeciesLoop ==
    /\ OnlyMain
    /\ UNCHANGED promptVars
    /\ lastCall' = NoCall
    /\ pc = "species"
    /\ cursor <= Len(especies_con_sinonimias)
    /\ especie' = cursor
    /\ nombre_valido' = especies_con_sinonimias[cursor].nombre_cientifico
    /\ IF nombre_valido' \notin nombres_buscados
       THEN /\ nombres_buscados' = nombres_buscados \cup {nombre_valido'}
            /\ searched' = Append(searched, nombre_valido')
            /\ \E n \in IdCounts :
                 IF n > 0
                 THEN /\ pending' = n
                      /\ pc' = "species_ids"
                      /\ UNCHANGED <<cursor, df_final>>
                 ELSE /\ df_final' = Append(df_final,
                                        NoSequencesRow(nombre_valido', "No sequences"))
                      /\ cursor' = cursor + 1
                      /\ UNCHANGED <<pc, pending>>
       ELSE /\ cursor' = cursor + 1
            /\ UNCHANGED <<nombres_buscados, searched, pending, pc, df_final>>
    /\ UNCHANGED <<incluir_mitocondriales, especies_con_sinonimias, info_secuencias,
                   fetched, families, genera, gcursor, files>>

\* line 458 reached: the species loop is over.  The synonym loop is not nested in
\* it: it reads the loop variable especie as the species loop left it.
SpeciesLoopExit ==
    /\ OnlyMain
    /\ UNCHANGED promptVars
    /\ lastCall' = NoCall
    /\ pc = "species"
    /\ cursor > Len(especies_con_sinonimias)
    /\ pc' = IF especie = 0 THEN "crashed" ELSE "synonyms"   \* NameError: especie
    /\ cursor' = 1
    /\ UNCHANGED <<incluir_mitocondriales, especies_con_sinonimias, nombres_buscados,
                   especie, nombre_valido, pending, info_secuencias, df_final,
                   searched, fetched, families, genera, gcursor, files>>

Sinonimias == especies_con_sinonimias[especie].sinonimias

\* lines 458-462, 472-474: one iteration head of "for sinonimia in ..."
SynonymLoop ==
    /\ OnlyMain
    /\ UNCHANGED promptVars
    /\ lastCall' = NoCall
    /\ pc = "synonyms"
    /\ cursor <= Len(Sinonimias)
    /\ LET sinonimia == Sinonimias[cursor]
       IN  IF sinonimia \notin nombres_buscados
           THEN /\ nombres_buscados' = nombres_buscados \cup {sinonimia}
                /\ searched' = Append(searched, sinonimia)
                /\ \E n \in IdCounts :
                     IF n > 0
                     THEN /\ pending' = n
                          /\ pc' = "synonym_ids"
                          /\ UNCHANGED <<cursor, df_final>>
                     ELSE /\ df_final' = Append(df_final,
                                NoSequencesRow(nombre_valido,
                                               sinonimia \o " (No sequences)"))
                          /\ cursor' = cursor + 1
                          /\ UNCHANGED <<pc, pending>>
           ELSE /\ cursor' = cursor + 1
                /\ UNCHANGED <<nombres_buscados, searched, pending, pc, df_final>>
    /\ UNCHANGED <<incluir_mitocondriales, especies_con_sinonimias, especie,
                   nombre_valido, info_secuencias, fetched, families,
                   genera, gcursor, files>>

SynonymLoopExit ==
    /\ OnlyMain
    /\ UNCHANGED promptVars
    /\ lastCall' = NoCall
    /\ pc = "synonyms"
    /\ cursor > Len(Sinonimias)
    /\ pc' = "direct"
    /\ UNCHANGED <<incluir_mitocondriales, especies_con_sinonimias, nombres_buscados,
                   especie, nombre_valido, cursor, pending, info_secuencias, df_final,
                   searched, fetched, families, genera, gcursor, files>>

\* lines 444-453 and their copies at 463-471, 479-487, 494-502, 510-518: one
\* iteration of "for accession in <ids>": fetch_sequence, extract_info, append.
\* valid_species_name is the second argument main passes to extract_info.
ProcessId(uid, fetchOk, method, valid_species_name) ==
    LET record == GenBank[uid]
        out == IF fetchOk
               THEN ExtractInfo(record, valid_species_name, method,
                                incluir_mitocondriales, info_secuencias)
               ELSE Raised
    IN  /\ fetched' = fetched + 1
        /\ pending' = pending - 1
        /\ lastCall' = [uid |-> uid, method |-> method,
                        result |-> IF fetchOk THEN out.kind ELSE "fetch_raised"]
        /\ info_secuencias' = Registry(record.id, out, info_secuencias)
        /\ IF out.kind = "row"
           THEN df_final' = Append(df_final, out.info)
           ELSE UNCHANGED df_final

ValidNameArg(record) == nombre_valido
SynonymNameArg(record) == nombre_valido \o "*"
OrganismArg(record) == record.organism

SpeciesIds ==
    /\ OnlyMain
    /\ UNCHANGED promptVars
    /\ pc = "species_ids"
    /\ \E uid \in UIDs, fetchOk \in BOOLEAN : ProcessId(uid, fetchOk, FromITIS, ValidNameArg(GenBank[uid]))
    /\ IF pending' = 0
       THEN pc' = "species" /\ cursor' = cursor + 1
       ELSE UNCHANGED <<pc, cursor>>
    /\ UNCHANGED <<incluir_mitocondriales, especies_con_sinonimias, nombres_buscados,
                   especie, nombre_valido, searched, families, genera, gcursor, files>>

SynonymIds ==
    /\ OnlyMain
    /\ UNCHANGED promptVars
    /\ pc = "synonym_ids"
    /\ \E uid \in UIDs, fetchOk \in BOOLEAN : ProcessId(uid, fetchOk, FromITIS, SynonymNameArg(GenBank[uid]))
    /\ IF pending' = 0
       THEN pc' = "synonyms" /\ cursor' = cursor + 1
       ELSE UNCHANGED <<pc, cursor>>
    /\ UNCHANGED <<incluir_mitocondriales, especies_con_sinonimias, nombres_buscados,
                   especie, nombre_valido, searched, families, genera, gcursor, files>>

\* lines 476-478: search_genbank_directly(nombre_taxon)
Direct ==
    /\ OnlyMain
    /\ UNCHANGED promptVars
    /\ lastCall' = NoCall
    /\ pc = "direct"
    /\ \E n \in IdCounts :
         /\ pending' = n
         /\ pc' = IF n > 0 THEN "direct_ids" ELSE "families"
    /\ UNCHANGED <<incluir_mitocondriales, especies_con_sinonimias, nombres_buscados,
                   especie, nombre_valido, cursor, info_secuencias, df_final,
                   searched, fetched, families, genera, gcursor, files>>

DirectIds ==
    /\ OnlyMain
    /\ UNCHANGED promptVars
    /\ pc = "direct_ids"
    /\ \E uid \in UIDs, fetchOk \in BOOLEAN : ProcessId(uid, fetchOk, DirectSearch, OrganismArg(GenBank[uid]))
    /\ pc' = IF pending' = 0 THEN "families" ELSE pc
    /\ UNCHANGED <<incluir_mitocondriales, especies_con_sinonimias, nombres_buscados,
                   especie, nombre_valido, cursor, searched, families, genera, gcursor,
                   files>>

Prefixes(names) == { SubSeq(names, 1, k) : k \in 0..Len(names) }

\* lines 489-490: get_families_from_order(nombre_taxon); its own errors are caught
GetFamilies ==
    /\ OnlyMain
    /\ UNCHANGED promptVars
    /\ lastCall' = NoCall
    /\ pc = "families"
    /\ families' \in Prefixes(FamilyNames)
    /\ pc' = "family"
    /\ cursor' = 1
    /\ UNCHANGED <<incluir_mitocondriales, especies_con_sinonimias, nombres_buscados,
                   especie, nombre_valido, pending, info_secuencias, df_final,
                   searched, fetched, genera, gcursor, files>>

\* lines 491-493: search_genbank_family(family)
FamilyLoop ==
    /\ OnlyMain
    /\ UNCHANGED promptVars
    /\ lastCall' = NoCall
    /\ pc = "family"
    /\ cursor <= Len(families)
    /\ \E n \in IdCounts :
         IF n > 0
         THEN pending' = n /\ pc' = "family_ids" /\ UNCHANGED cursor
         ELSE cursor' = cursor + 1 /\ UNCHANGED <<pc, pending>>
    /\ UNCHANGED <<incluir_mitocondriales, especies_con_sinonimias, nombres_buscados,
                   especie, nombre_valido, info_secuencias, df_final,
                   searched, fetched, families, genera, gcursor, files>>

FamilyIds ==
    /\ OnlyMain
    /\ UNCHANGED promptVars
    /\ pc = "family_ids"
    /\ \E uid \in UIDs, fetchOk \in BOOLEAN : ProcessId(uid, fetchOk, FamilySearch, OrganismArg(GenBank[uid]))
    /\ IF pending' = 0
       THEN pc' = "family" /\ cursor' = cursor + 1
       ELSE UNCHANGED <<pc, cursor>>
    /\ UNCHANGED <<incluir_mitocondriales, especies_con_sinonimias, nombres_buscados,
                   especie, nombre_valido, searched, families, genera, gcursor, files>>

FamilyLoopExit ==
    /\ OnlyMain
    /\ UNCHANGED promptVars
    /\ lastCall' = NoCall
    /\ pc = "family"
    /\ cursor > Len(families)
    /\ pc' = "genus_family"
    /\ cursor' = 1
    /\ UNCHANGED <<incluir_mitocondriales, especies_con_sinonimias, nombres_buscados,
                   especie, nombre_valido, pending, info_secuencias, df_final,
                   searched, fetched, families, genera, gcursor, files>>

\* lines 505-506: get_genera_from_family(family); its own errors are caught
GetGenera ==
    /\ OnlyMain
    /\ UNCHANGED promptVars
    /\ lastCall' = NoCall
    /\ pc = "genus_family"
    /\ cursor <= Len(families)
    /\ genera' \in Prefixes(GenusNames)
    /\ gcursor' = 1
    /\ pc' = "genus"
    /\ UNCHANGED <<incluir_mitocondriales, especies_con_sinonimias, nombres_buscados,
                   especie, nombre_valido, cursor, pending, info_secuencias, df_final,
                   searched, fetched, families, files>>

\* lines 507-509: search_genbank_genus(genus)
GenusLoop ==
    /\ OnlyMain
    /\ UNCHANGED promptVars
    /\ lastCall' = NoCall
    /\ pc = "genus"
    /\ gcursor <= Len(genera)
    /\ \E n \in IdCounts :
         IF n > 0
         THEN pending' = n /\ pc' = "genus_ids" /\ UNCHANGED gcursor
         ELSE gcursor' = gcursor + 1 /\ UNCHANGED <<pc, pending>>
    /\ UNCHANGED <<incluir_mitocondriales, especies_con_sinonimias, nombres_buscados,
                   especie, nombre_valido, cursor, info_secuencias, df_final,
                   searched, fetched, families, genera, files>>

GenusIds ==
    /\ OnlyMain
    /\ UNCHANGED promptVars
    /\ pc = "genus_ids"
    /\ \E uid \in UIDs, fetchOk \in BOOLEAN : ProcessId(uid, fetchOk, GenusSearch, OrganismArg(GenBank[uid]))
    /\ IF pending' = 0
       THEN pc' = "genus" /\ gcursor' = gcursor + 1
       ELSE UNCHANGED <<pc, gcursor>>
    /\ UNCHANGED <<incluir_mitocondriales, especies_con_sinonimias, nombres_buscados,
                   especie, nombre_valido, cursor, searched, families, genera, files>>

GenusLoopExit ==
    /\ OnlyMain
    /\ UNCHANGED promptVars
    /\ lastCall' = NoCall
    /\ pc = "genus"
    /\ gcursor > Len(genera)
    /\ pc' = "genus_family"
    /\ cursor' = cursor + 1
    /\ UNCHANGED <<incluir_mitocondriales, especies_con_sinonimias, nombres_buscados,
                   especie, nombre_valido, pending, info_secuencias, df_final,
                   searched, fetched, families, genera, gcursor, files>>

\* lines 520-563: the two sequence workbooks
Export ==
    /\ OnlyMain
    /\ UNCHANGED promptVars
    /\ lastCall' = NoCall
    /\ pc = "genus_family"
    /\ cursor > Len(families)
    /\ files' = files \cup {"Genbank_sequences.xlsx", "Genbank_rawdata.xlsx"}
    /\ pc' = "done"
    /\ UNCHANGED <<incluir_mitocondriales, especies_con_sinonimias, nombres_buscados,
                   especie, nombre_valido, cursor, pending, info_secuencias, df_final,
                   searched, fetched, families, genera, gcursor>>

Next ==
    \/ Start \/ AskMetagenome \/ Resolve
    \/ SpeciesLoop \/ SpeciesIds \/ SpeciesLoopExit
    \/ SynonymLoop \/ SynonymIds \/ SynonymLoopExit
    \/ Direct \/ DirectIds
    \/ GetFamilies \/ FamilyLoop \/ FamilyIds \/ FamilyLoopExit
    \/ GetGenera \/ GenusLoop \/ GenusIds \/ GenusLoopExit
    \/ Export

(***************************************************************************)
(* The search functions: search_genbank, search_genbank_directly,          *)
(* search_genbank_family, search_genbank_genus, called in main's order.    *)
(* A query's result set is the positions 0..Count-1 of its result list; a  *)
(* response with retstart and retmax carries the positions from retstart   *)
(* on, at most retmax of them.  The ids of one response are kept as one    *)
(* block [variant, start, n].                                              *)
(***************************************************************************)
MaxHits == 2       \* queries of one call that find something

PageSize == 100    \* retmax of search_genbank
SingleRetMax == 10000   \* retmax of the three single-request searches

SearchFns == <<"search_genbank", "search_genbank_directly",
               "search_genbank_family", "search_genbank_genus">>

\* Count values the database may report for one query
Counts(fn) == IF fn = "search_genbank" THEN {0, 50, 250} ELSE {0, 50, 12000}

Min(a, b) == IF a < b THEN a ELSE b
Max(a, b) == IF a > b THEN a ELSE b

\* record["IdList"] of Entrez.esearch(term, retmax, retstart) on a query with count ids
IdList(variant, count, retstart, retmax) ==
    LET n == Max(0, Min(retmax, count - retstart))
    IN  IF n = 0 THEN {} ELSE {[variant |-> variant, start |-> retstart, n |-> n]}

\* lines 164-166 (295-296, 346-347, 395-396): the except clause of one query
ExceptClauseReturnsEmpty(ids) == [ids |-> {}, at |-> "raised"]
ExceptClause(ids) == [ids |-> ids, at |-> "query"]

\* line 158: the condition of the paging loop
MoreResults(count, retstart, retmax) == count > retstart + retmax

OnlySearch == UNCHANGED <<mainVars, resolverVars, scoreVars>>

InitSearch ==
    /\ s_fn = "" /\ s_variant = 0 /\ s_retstart = 0 /\ s_count = 0
    /\ s_ids = {} /\ s_pages = {} /\ s_at = "idle" /\ s_hits = 0 /\ s_log = <<>>
    /\ s_last = ""

\* a call of the next search function: its locals are fresh (retstart=0 is the
\* default of search_genbank's parameter, line 135)
CallSearch ==
    /\ OnlySearch
    /\ s_at \in {"idle", "returned"}
    /\ Len(s_log) < Len(SearchFns)
    /\ s_fn' = SearchFns[Len(s_log) + 1]
    /\ s_variant' = 1
    /\ s_retstart' = 0
    /\ s_count' = 0
    /\ s_ids' = {}
    /\ s_pages' = {}
    /\ s_hits' = 0
    /\ s_at' = "query"
    /\ s_last' = "call"
    /\ UNCHANGED s_log

\* the except clause and the next iteration of "for gene_variant in gene_variants"
Thrown ==
    LET h == ExceptClause(s_ids)
    IN  /\ s_ids' = h.ids
        /\ s_at' = h.at
        /\ s_variant' = s_variant + 1
        /\ s_last' = "threw"
        /\ UNCHANGED <<s_fn, s_retstart, s_count, s_hits, s_log>>

\* lines 138-158: the first request of one gene variant in search_genbank
FirstPage ==
    /\ OnlySearch
    /\ s_fn = "search_genbank"
    /\ s_at = "query"
    /\ s_variant <= Len(gene_variants)
    /\ s_pages' = {s_retstart}
    /\ \/ Thrown
       \/ \E count \in Counts(s_fn) :
            /\ count > 0 => s_hits < MaxHits
            /\ s_hits' = IF count > 0 THEN s_hits + 1 ELSE s_hits
            /\ s_count' = count
            /\ s_ids' = s_ids \cup IdList(s_variant, count, s_retstart, PageSize)
            /\ IF MoreResults(count, s_retstart, PageSize)
               THEN s_at' = "paging" /\ UNCHANGED s_variant
               ELSE s_at' = "query" /\ s_variant' = s_variant + 1
            /\ s_last' = "ok"
            /\ UNCHANGED <<s_fn, s_retstart, s_log>>

\* lines 158-163: one iteration of the paging loop
NextPage ==
    /\ OnlySearch
    /\ s_at = "paging"
    /\ s_retstart' = s_retstart + PageSize
    /\ s_pages' = s_pages \cup {s_retstart'}
    /\ \/ /\ s_ids' = ExceptClause(s_ids).ids
          /\ s_at' = ExceptClause(s_ids).at
          /\ s_variant' = s_variant + 1
          /\ s_last' = "threw"
          /\ UNCHANGED <<s_fn, s_count, s_hits, s_log>>
       \/ /\ s_ids' = s_ids \cup IdList(s_variant, s_count, s_retstart', PageSize)
          /\ IF MoreResults(s_count, s_retstart', PageSize)
             THEN s_at' = "paging" /\ UNCHANGED s_variant
             ELSE s_at' = "query" /\ s_variant' = s_variant + 1
          /\ s_last' = "ok"
          /\ UNCHANGED <<s_fn, s_count, s_hits, s_log>>

\* lines 285-298, 336-347, 385-396: the one request of one gene variant in
\* search_genbank_directly, search_genbank_family and search_genbank_genus
SingleRequest ==
    /\ OnlySearch
    /\ s_fn \in {"search_genbank_directly", "search_genbank_family", "search_genbank_genus"}
    /\ s_at = "query"
    /\ s_variant <= Len(gene_variants)
    /\ s_pages' = {0}
    /\ \/ Thrown
       \/ \E count \in Counts(s_fn) :
            /\ count > 0 => s_hits < MaxHits
            /\ s_hits' = IF count > 0 THEN s_hits + 1 ELSE s_hits
            /\ s_count' = count
            /\ s_ids' = s_ids \cup IdList(s_variant, count, 0, SingleRetMax)
            /\ s_at' = "query"
            /\ s_variant' = s_variant + 1
            /\ s_last' = "ok"
            /\ UNCHANGED <<s_fn, s_retstart, s_log>>

\* lines 170, 301, 350, 399: return of the collected ids
ReturnIds ==
    /\ OnlySearch
    /\ s_at = "query"
    /\ s_variant > Len(gene_variants)
    /\ s_at' = "returned"
    /\ s_log' = Append(s_log, s_fn)
    /\ s_last' = "return"
    /\ UNCHANGED <<s_fn, s_variant, s_retstart, s_count, s_ids, s_pages, s_hits>>

NextSearch == CallSearch \/ FirstPage \/ NextPage \/ SingleRequest \/ ReturnIds

(***************************************************************************)
(* The resolver: obtener_especies_desde_tsn and obtener_sinonimias.        *)
(* The hierarchy is a tree over the nodes 1..N rooted at node 1, the tsn   *)
(* main passes; a child is of a lower rank than its parent and a           *)
(* subspecies hangs under a species.                                       *)
(***************************************************************************)
MaxNodes == 4          \* nodes of the hierarchy
MAX_REINTENTOS == 5

RankNames == <<"Order", "Genus", "Species", "Subspecies">>
RankLevel(r) == CHOOSE i \in DOMAIN RankNames : RankNames[i] = r

\* node n may hang under node p of tree t with rank r
MayHang(t, p, r) ==
    /\ RankLevel(r) > RankLevel(t[p].rank)
    /\ r = "Subspecies" => t[p].rank = "Species"

RECURSIVE TreesOf(_)
TreesOf(n) ==
    IF n = 1 THEN { <<[parent |-> 0, rank |-> "Order"]>> }
    ELSE UNION { { Append(t, [parent |-> c[1], rank |-> c[2]]) :
                     c \in { d \in (1..(n - 1)) \X Range(RankNames) :
                               MayHang(t, d[1], d[2]) } } :
                 t \in TreesOf(n - 1) }

Trees == TreesOf(MaxNodes)

\* rankName.strip().lower() of the four rank names
RankKey == [r \in Range(RankNames) |-> Lower(Strip(r))]

RECURSIVE SortedSeq(_)
SortedSeq(S) ==
    IF S = {} THEN <<>>
    ELSE LET m == CHOOSE x \in S : \A y \in S : x <= y
         IN  <<m>> \o SortedSeq(S \ {m})

Null == 0
\* data['hierarchyList'] of getHierarchyDownFromTSN: the children of tsn, or the
\* list [null] the service sends for a node without children
HierarchyList(tree, tsn) ==
    LET kids == { n \in DOMAIN tree : tree[n].parent = tsn }
    IN  IF kids = {} THEN <<Null>> ELSE SortedSeq(kids)

\* taxonName of a node and the synonyms its full record lists
TaxonName(tsn) == "Taxon" \o ToString(tsn)
SynonymList(tsn) == IF tsn % 2 = 0 THEN <<"Syn" \o ToString(tsn)>> ELSE <<>>

\* lines 70 and 72: the two branches of the loop over hierarchyList
IsExpandedAlways(tree, registro) == registro # Null
IsExpanded(tree, registro) ==
    registro # Null /\ RankKey[tree[registro].rank] # "species"
IsSpeciesEntry(tree, registro) ==
    registro # Null /\ ~IsExpanded(tree, registro)

\* line 37: range(MAX_REINTENTOS)
MoreAttemptsOneMore(intento) == intento <= MAX_REINTENTOS
MoreAttempts(intento) == intento < MAX_REINTENTOS

OnlyResolver == UNCHANGED <<mainVars, searchVars, scoreVars>>

NoLookup == [tsn |-> 0, attempts |-> 0, failed |-> 0, result |-> <<>>]

InitResolver ==
    /\ r_tree \in Trees
    /\ r_stack = <<>>
    /\ r_pc = "start"
    /\ r_especies = <<>>
    /\ r_intento = 0
    /\ r_visits = [n \in 1..MaxNodes |-> 0]
    /\ r_last = NoLookup
    /\ r_post = 0

Top == r_stack[Len(r_stack)]
TopList == HierarchyList(r_tree, Top.tsn)
Registro == TopList[Top.idx]

\* lines 63-67: the request of one call of obtener_especies_recursivamente
Enter(tsn) ==
    \/ /\ r_stack' = Append(r_stack, [tsn |-> tsn, idx |-> 1, especies |-> <<>>])
       /\ r_visits' = [r_visits EXCEPT ![tsn] = @ + 1]
       /\ r_pc' = "loop"
    \/ /\ r_pc' = "raised"               \* requests.get raised: nothing catches it
       /\ r_visits' = [r_visits EXCEPT ![tsn] = @ + 1]
       /\ UNCHANGED r_stack

\* lines 85-87: the one task submitted to the pool
Submit ==
    /\ OnlyResolver
    /\ r_pc = "start"
    /\ Enter(1)
    /\ UNCHANGED <<r_tree, r_especies, r_intento, r_last, r_post>>

\* lines 69-71: an entry that is not a species is expanded
Expand ==
    /\ OnlyResolver
    /\ r_pc = "loop"
    /\ Top.idx <= Len(TopList)
    /\ IsExpanded(r_tree, Registro)
    /\ Enter(Registro)
    /\ UNCHANGED <<r_tree, r_especies, r_intento, r_last, r_post>>

\* a null entry takes neither branch
SkipNull ==
    /\ OnlyResolver
    /\ r_pc = "loop"
    /\ Top.idx <= Len(TopList)
    /\ Registro = Null
    /\ r_stack' = [r_stack EXCEPT ![Len(r_stack)].idx = @ + 1]
    /\ UNCHANGED <<r_tree, r_pc, r_especies, r_intento, r_visits, r_last, r_post>>

\* lines 72-76: a species entry: obtener_sinonimias is called
SpeciesEntry ==
    /\ OnlyResolver
    /\ r_pc = "loop"
    /\ Top.idx <= Len(TopList)
    /\ IsSpeciesEntry(r_tree, Registro)
    /\ r_pc' = "lookup"
    /\ r_intento' = 0
    /\ UNCHANGED <<r_tree, r_stack, r_especies, r_visits, r_last, r_post>>

\* the tsn the running obtener_sinonimias was called with
LookupTsn == IF r_pc = "lookup" THEN Registro ELSE r_especies[r_post].tsn

\* the caller gets the list: lines 73-79 in the descent, lines 92-93 after it
LookupReturns(sinonimias, attempts, failed) ==
    /\ r_last' = [tsn |-> LookupTsn, attempts |-> attempts, failed |-> failed,
                  result |-> sinonimias]
    /\ r_intento' = 0
    /\ IF r_pc = "lookup"
       THEN /\ r_stack' = [r_stack EXCEPT
                  ![Len(r_stack)].especies =
                      Append(@, [tsn |-> Registro,
                                 nombre_cientifico |-> Strip(TaxonName(Registro)),
                                 sinonimias |-> sinonimias]),
                  ![Len(r_stack)].idx = @ + 1]
            /\ r_pc' = "loop"
            /\ UNCHANGED <<r_especies, r_post>>
       ELSE /\ r_especies' = [r_especies EXCEPT ![r_post].sinonimias = sinonimias]
            /\ r_post' = r_post + 1
            /\ r_pc' = "post"
            /\ UNCHANGED r_stack

\* lines 37-48: one attempt of obtener_sinonimias that gets its response
AttemptSucceeds ==
    /\ OnlyResolver
    /\ r_pc \in {"lookup", "post_lookup"}
    /\ MoreAttempts(r_intento)
    /\ LookupReturns(SynonymList(LookupTsn), r_intento + 1, r_intento)
    /\ UNCHANGED <<r_tree, r_visits>>

\* lines 50-56: one attempt that ends in Timeout or RequestException
AttemptFails ==
    /\ OnlyResolver
    /\ r_pc \in {"lookup", "post_lookup"}
    /\ MoreAttempts(r_intento)
    /\ r_intento' = r_intento + 1
    /\ UNCHANGED <<r_tree, r_stack, r_pc, r_especies, r_visits, r_last, r_post>>

\* lines 58-59: the retries are used up
AttemptsExhausted ==
    /\ OnlyResolver
    /\ r_pc \in {"lookup", "post_lookup"}
    /\ ~MoreAttempts(r_intento)
    /\ LookupReturns(<<>>, r_intento, r_intento)
    /\ UNCHANGED <<r_tree, r_visits>>

\* line 80 and line 71/89: a call returns its list to its caller
ReturnEspecies ==
    /\ OnlyResolver
    /\ r_pc = "loop"
    /\ Top.idx > Len(TopList)
    /\ IF Len(r_stack) > 1
       THEN /\ r_stack' = [SubSeq(r_stack, 1, Len(r_stack) - 1) EXCEPT
                  ![Len(r_stack) - 1].especies = @ \o Top.especies,
                  ![Len(r_stack) - 1].idx = @ + 1]
            /\ UNCHANGED <<r_pc, r_especies, r_post>>
       ELSE /\ r_stack' = <<>>
            /\ r_especies' = r_especies \o Top.especies
            /\ r_pc' = "post"
            /\ r_post' = 1
    /\ UNCHANGED <<r_tree, r_intento, r_visits, r_last>>

\* lines 91-92: the synonyms of every species are asked for again
PostLookup ==
    /\ OnlyResolver
    /\ r_pc = "post"
    /\ r_post <= Len(r_especies)
    /\ r_pc' = "post_lookup"
    /\ r_intento' = 0
    /\ UNCHANGED <<r_tree, r_stack, r_especies, r_visits, r_last, r_post>>

\* line 95
ReturnResolved ==
    /\ OnlyResolver
    /\ r_pc = "post"
    /\ r_post > Len(r_especies)
    /\ r_pc' = "returned"
    /\ UNCHANGED <<r_tree, r_stack, r_especies, r_intento, r_visits, r_last, r_post>>

NextResolver ==
    \/ Submit \/ Expand \/ SkipNull \/ SpeciesEntry
    \/ AttemptSucceeds \/ AttemptFails \/ AttemptsExhausted
    \/ ReturnEspecies \/ PostLookup \/ ReturnResolved

(***************************************************************************)
(* The scorer: Priorization.py.  A cell of the input table is missing      *)
(* (NaN after read_csv), a number or a text.  Scores are integers;         *)
(* contributions and final scores are kept in hundredths (0.25 is 25), and *)
(* percentage contributions in hundredths of a percent, the two decimals   *)
(* that round(2) keeps.                                                    *)
(***************************************************************************)
NaN == [kind |-> "nan"]
Num(v) == [kind |-> "num", val |-> v]
Txt(t) == [kind |-> "str", val |-> t]

\* pd.isna(x) or x == "" or x is None
IsMissing(cell) == cell.kind = "nan" \/ (cell.kind = "str" /\ cell.val = "")

Digits == "0123456789"
IsDigit(c) == \E i \in 1..10 : SubSeq(Digits, i, i) = c
DigitValue(c) == (CHOOSE i \in 1..10 : SubSeq(Digits, i, i) = c) - 1

RECURSIVE DigitsValue(_, _)
DigitsValue(t, acc) ==
    IF Len(t) = 0 THEN acc
    ELSE DigitsValue(SubSeq(t, 2, Len(t)), 10 * acc + DigitValue(SubSeq(t, 1, 1)))

\* float(x): a number is itself, a text of digits is its value (surrounding blanks
\* are allowed), any other text raises ValueError
Parses(cell) ==
    \/ cell.kind = "num"
    \/ /\ cell.kind = "str"
       /\ Len(Strip(cell.val)) > 0
       /\ \A i \in 1..Len(Strip(cell.val)) : IsDigit(SubSeq(Strip(cell.val), i, i))
Float(cell) ==
    IF cell.kind = "num" THEN cell.val ELSE DigitsValue(Strip(cell.val), 0)

\* a lookup whose default for an unknown code is 0
IucnScoreUnknownIsZero(status) ==
    IF IsMissing(status) THEN 3
    ELSE IF Upper(status.val) \in {"CR", "EN", "VU", "NT", "DD", "LC", "NE"}
    THEN CASE Upper(status.val) = "CR" -> 7
           [] Upper(status.val) = "EN" -> 6
           [] Upper(status.val) = "VU" -> 5
           [] Upper(status.val) \in {"NT", "DD"} -> 4
           [] Upper(status.val) = "LC" -> 3
           [] OTHER -> 1
    ELSE 0

\* lines 5-19
calculate_iucn_score(status) ==
    IF IsMissing(status) THEN 3
    ELSE LET code == Upper(status.val)
         IN  CASE code = "CR" -> 7
               [] code = "EN" -> 6
               [] code = "VU" -> 5
               [] code = "NT" -> 4
               [] code = "DD" -> 4
               [] code = "LC" -> 3
               [] code = "NE" -> 1
               [] OTHER -> 3

\* lines 21-34
calculate_area_loss_score(percentage) ==
    IF IsMissing(percentage) THEN 3
    ELSE IF ~Parses(percentage) THEN 3
    ELSE LET v == Float(percentage)
         IN  IF v > 80 THEN 5
             ELSE IF v > 60 THEN 4
             ELSE IF v > 40 THEN 3
             ELSE IF v > 20 THEN 2
             ELSE 1

\* bands closed on the right
EooScoreInclusive(eoo) ==
    IF IsMissing(eoo) THEN 3
    ELSE IF ~Parses(eoo) THEN 3
    ELSE LET v == Float(eoo)
         IN  IF v <= 100 THEN 5
             ELSE IF v <= 5000 THEN 4
             ELSE IF v <= 20000 THEN 3
             ELSE IF v <= 50000 THEN 2
             ELSE 1

\* lines 36-49
calculate_eoo_score(eoo) ==
    IF IsMissing(eoo) THEN 3
    ELSE IF ~Parses(eoo) THEN 3
    ELSE LET v == Float(eoo)
         IN  IF v < 100 THEN 5
             ELSE IF v < 5000 THEN 4
             ELSE IF v < 20000 THEN 3
             ELSE IF v < 50000 THEN 2
             ELSE 1

\* bands closed on the left
HumanFootprintScoreInclusive(overlap) ==
    IF IsMissing(overlap) THEN 3
    ELSE IF ~Parses(overlap) THEN 3
    ELSE LET v == Float(overlap)
         IN  IF v >= 80 THEN 5
             ELSE IF v >= 60 THEN 4
             ELSE IF v >= 40 THEN 3
             ELSE IF v >= 20 THEN 2
             ELSE 1

\* lines 51-64
calculate_human_footprint_score(overlap) ==
    IF IsMissing(overlap) THEN 3
    ELSE IF ~Parses(overlap) THEN 3
    ELSE LET v == Float(overlap)
         IN  IF v > 80 THEN 5
             ELSE IF v > 60 THEN 4
             ELSE IF v > 40 THEN 3
             ELSE IF v > 20 THEN 2
             ELSE 1

Weight == 25       \* 0.25, in hundredths

\* lines 199-202 and 230-233
ContributionAbs(score) == score * Weight

\* lines 205-210 and 236-241
FinalScoreWithoutFootprint(iucn, area_loss, eoo, human_footprint) ==
    iucn + area_loss + eoo
FinalScore(iucn, area_loss, eoo, human_footprint) ==
    iucn + area_loss + eoo + human_footprint

\* the integer nearest to a / b, a tie going to the even one, as round() does
RoundHalfEven(a, b) ==
    LET q == a \div b
        r == a % b
    IN  IF 2 * r < b THEN q
        ELSE IF 2 * r > b THEN q + 1
        ELSE IF q % 2 = 0 THEN q ELSE q + 1

\* lines 213-218 and 244-249: (abs / final_score * 100).round(2)
PercentContribution(abs, final_score) == RoundHalfEven(abs * 10000, final_score)

\* lines 193-218 (ssp245) and 224-249 (ssp585) for one row; area_loss is the
\* scenario's area-loss cell
ScoreRow(row, area_loss) ==
    LET iucn_score == calculate_iucn_score(row.iucn_status)
        area_loss_score == calculate_area_loss_score(area_loss)
        eoo_score == calculate_eoo_score(row.eoo)
        human_footprint_score == calculate_human_footprint_score(row.human_footprint)
        iucn_abs == ContributionAbs(iucn_score)
        area_loss_abs == ContributionAbs(area_loss_score)
        eoo_abs == ContributionAbs(eoo_score)
        human_footprint_abs == ContributionAbs(human_footprint_score)
        final_score == FinalScore(iucn_abs, area_loss_abs, eoo_abs, human_footprint_abs)
    IN  [species_name |-> row.species_name,
         iucn_score |-> iucn_score,
         area_loss_score |-> area_loss_score,
         eoo_score |-> eoo_score,
         human_footprint_score |-> human_footprint_score,
         iucn_contribution_abs |-> iucn_abs,
         area_loss_contribution_abs |-> area_loss_abs,
         eoo_contribution_abs |-> eoo_abs,
         human_footprint_contribution_abs |-> human_footprint_abs,
         final_score |-> final_score,
         iucn_contribution |-> PercentContribution(iucn_abs, final_score),
         area_loss_contribution |-> PercentContribution(area_loss_abs, final_score),
         eoo_contribution |-> PercentContribution(eoo_abs, final_score),
         human_footprint_contribution |->
             PercentContribution(human_footprint_abs, final_score)]

\* cells of the input table
StatusCells == {NaN, Txt("CR"), Txt("en"), Txt("VU"), Txt("NT"), Txt("DD"), Txt("LC"),
                Txt("NE"), Txt("XX")}
PercentCells == {NaN, Txt("abc"), Txt("85"), Num(20), Num(21), Num(40), Num(41),
                 Num(60), Num(61), Num(80), Num(81)}
EooCells == {NaN, Num(99), Num(100), Num(4999), Num(5000), Num(19999), Num(20000),
             Num(49999), Num(50000)}

InputRows ==
    [species_name : {"Mus musculus"}, iucn_status : StatusCells,
     area_loss_ssp245 : PercentCells, area_loss_ssp585 : PercentCells,
     eoo : EooCells, human_footprint : PercentCells]

OnlyScore == UNCHANGED <<mainVars, searchVars, resolverVars>>

\* lines 162-187: the table as read and normalised
Running == [kind |-> "running"]
NotSorted ==
    /\ df_ssp245_sorted = <<>> /\ df_ssp585_sorted = <<>>
    /\ comparison_df = <<>> /\ rank_comparison = <<>>
    /\ p_return = Running

InitScore ==
    /\ df \in { <<row>> : row \in InputRows }
    /\ df_ssp245 = <<>>
    /\ df_ssp585 = <<>>
    /\ p_pc = "ssp245"
    /\ NotSorted

\* lines 189-218
ScoreSsp245 ==
    /\ OnlyScore
    /\ p_pc = "ssp245"
    /\ df_ssp245' = [i \in DOMAIN df |-> ScoreRow(df[i], df[i].area_loss_ssp245)]
    /\ p_pc' = "ssp585"
    /\ UNCHANGED <<df, df_ssp585, df_ssp245_sorted, df_ssp585_sorted, comparison_df,
                   rank_comparison, p_return>>

\* lines 220-249
ScoreSsp585 ==
    /\ OnlyScore
    /\ p_pc = "ssp585"
    /\ df_ssp585' = [i \in DOMAIN df |-> ScoreRow(df[i], df[i].area_loss_ssp585)]
    /\ p_pc' = "categories"
    /\ UNCHANGED <<df, df_ssp245, df_ssp245_sorted, df_ssp585_sorted, comparison_df,
                   rank_comparison, p_return>>

NextScore == ScoreSsp245 \/ ScoreSsp585

(***************************************************************************)
(* The rest of prioritize_species: categories, ranking, the two joined     *)
(* tables and the return.  Final scores stay in hundredths.                *)
(***************************************************************************)
MaxRows == 3

\* rows of the input file: two rows share a species name, two tie in ssp245
RowPool ==
    { [species_name |-> "Mus musculus", iucn_status |-> Txt("CR"),
       area_loss_ssp245 |-> Num(85), area_loss_ssp585 |-> Num(85),
       eoo |-> Num(50), human_footprint |-> Num(85)],
      [species_name |-> "Mus spretus", iucn_status |-> Txt("LC"),
       area_loss_ssp245 |-> Num(10), area_loss_ssp585 |-> Num(90),
       eoo |-> Num(60000), human_footprint |-> Num(10)],
      [species_name |-> "Mus musculus", iucn_status |-> NaN,
       area_loss_ssp245 |-> NaN, area_loss_ssp585 |-> NaN,
       eoo |-> NaN, human_footprint |-> NaN],
      [species_name |-> "Mus caroli", iucn_status |-> Txt("LC"),
       area_loss_ssp245 |-> Num(50), area_loss_ssp585 |-> Num(90),
       eoo |-> Num(10000), human_footprint |-> Num(50)] }

Tables == UNION { [1..n -> RowPool] : n \in 0..MaxRows }

FinalScores(table) == [i \in DOMAIN table |-> table[i].final_score]

\* the values of a column in ascending order
Ascending(col) ==
    [k \in DOMAIN col |->
        CHOOSE v \in Range(col) :
            /\ Cardinality({ i \in DOMAIN col : col[i] < v }) < k
            /\ k <= Cardinality({ i \in DOMAIN col : col[i] <= v })]

Labels == <<"Muy baja", "Baja", "Media", "Alta", "Muy alta">>
ValueError == [ok |-> FALSE, labels |-> <<>>]
Labelled(labels) == [ok |-> TRUE, labels |-> labels]

\* 5 times the k-th of the 6 quantile edges of qcut(q=5): linear interpolation
\* between the two order statistics around position (n - 1) * k / 5
QuantileEdge(col, k) ==
    LET pos == (Len(col) - 1) * k
        i == pos \div 5
        r == pos % 5
        a == Ascending(col)
    IN  IF r = 0 THEN 5 * a[i + 1] ELSE (5 - r) * a[i + 1] + r * a[i + 2]

EdgesCollapse(col) ==
    \E k \in 0..4 : QuantileEdge(col, k) = QuantileEdge(col, k + 1)

\* lines 254-258: pd.qcut raises ValueError when two edges are equal
qcut(col) ==
    IF Len(col) = 0 \/ EdgesCollapse(col) THEN ValueError
    ELSE Labelled([i \in DOMAIN col |->
             Labels[CHOOSE j \in 1..5 :
                      /\ 5 * col[i] <= QuantileEdge(col, j)
                      /\ \A h \in 1..(j - 1) : 5 * col[i] > QuantileEdge(col, h)]])

\* the bin of x among 5 equal-width bins over lo..hi, right-closed
EqualWidthBin(x, lo, hi) ==
    CHOOSE j \in 1..5 :
        /\ 5 * (x - lo) <= j * (hi - lo)
        /\ \A h \in 1..(j - 1) : 5 * (x - lo) > h * (hi - lo)

\* lines 261-265: pd.cut(bins=5).  An empty column raises; a column of one value v
\* is cut over v - 0.1% .. v + 0.1%; otherwise over min..max, the first edge moved
\* down so that the minimum falls in the first bin.
cutWithoutWidening(col) ==
    LET mn == Ascending(col)[1]
        mx == Ascending(col)[Len(col)]
    IN  IF Len(col) = 0 THEN ValueError
        ELSE IF mn = mx THEN ValueError
        ELSE Labelled([i \in DOMAIN col |->
                 Labels[IF col[i] = mn THEN 1 ELSE EqualWidthBin(col[i], mn, mx)]])
cut(col) ==
    LET mn == Ascending(col)[1]
        mx == Ascending(col)[Len(col)]
        down == IF mn # 0 THEN IF mn < 0 THEN -mn ELSE mn ELSE 1000
        up == IF mx # 0 THEN IF mx < 0 THEN -mx ELSE mx ELSE 1000
    IN  IF Len(col) = 0 THEN ValueError
        ELSE IF mn = mx
        THEN Labelled([i \in DOMAIN col |->
                 Labels[EqualWidthBin(1000 * col[i], 1000 * mn - down, 1000 * mx + up)]])
        ELSE Labelled([i \in DOMAIN col |->
                 Labels[IF col[i] = mn THEN 1 ELSE EqualWidthBin(col[i], mn, mx)]])

\* lines 253-265: try qcut, except cut
PriorityCategory(col) ==
    IF qcut(col).ok THEN qcut(col) ELSE cut(col)

WithCategory(table, labels) ==
    [i \in DOMAIN table |-> [priority_category |-> labels[i]] @@ table[i]]

\* lines 268-269: sort_values('final_score', ascending=False) is called without
\* kind, that is with quicksort, which orders rows of equal final_score in any order
DescendingOrders(table) ==
    { o \in [DOMAIN table -> DOMAIN table] :
        /\ \A a, b \in DOMAIN table : a # b => o[a] # o[b]
        /\ \A a, b \in DOMAIN table :
             a < b => table[o[a]].final_score >= table[o[b]].final_score }
sort_values(table) ==
    { [k \in DOMAIN table |-> [index |-> o[k]] @@ table[o[k]]] :
        o \in DescendingOrders(table) }

\* rows of right with the key of a left row, in right's order, from row j on
RECURSIVE Matches(_, _, _)
Matches(right, name, j) ==
    IF j > Len(right) THEN <<>>
    ELSE (IF right[j].species_name = name THEN <<right[j]>> ELSE <<>>)
         \o Matches(right, name, j + 1)

JoinRows(row, matched) == [j \in DOMAIN matched |-> matched[j] @@ row]

\* DataFrame.merge(right, on='species_name', how='left'), from left row i on: every
\* left row once per right row of the same name (all names of left occur in right)
RECURSIVE merge(_, _, _)
merge(left, right, i) ==
    IF i > Len(left) THEN <<>>
    ELSE JoinRows(left[i], Matches(right, left[i].species_name, 1))
         \o merge(left, right, i + 1)

\* the rows of a table without their order
Rows(table) ==
    [x \in Range(table) |-> Cardinality({ i \in DOMAIN table : table[i] = x })]
NumberOfRows(rows) ==
    LET RECURSIVE Sum(_)
        Sum(S) == IF S = {} THEN 0
                  ELSE LET x == CHOOSE y \in S : TRUE IN rows[x] + Sum(S \ {x})
    IN  Sum(DOMAIN rows)

\* lines 314, 347
SpeciesColumn(table) == [i \in DOMAIN table |-> [species_name |-> table[i].species_name]]
\* lines 318-321 and 327-330
Scores245(table) ==
    [i \in DOMAIN table |-> [species_name |-> table[i].species_name,
                             score_ssp245 |-> table[i].final_score,
                             category_ssp245 |-> table[i].priority_category]]
Scores585(table) ==
    [i \in DOMAIN table |-> [species_name |-> table[i].species_name,
                             score_ssp585 |-> table[i].final_score,
                             category_ssp585 |-> table[i].priority_category]]
\* lines 350-352 and 358-360, with the ranks of lines 343-344
Ranks245(sorted) ==
    [k \in DOMAIN sorted |-> [species_name |-> sorted[k].species_name,
                              rank_ssp245 |-> k,
                              category_ssp245 |-> sorted[k].priority_category]]
Ranks585(sorted) ==
    [k \in DOMAIN sorted |-> [species_name |-> sorted[k].species_name,
                              rank_ssp585 |-> k,
                              category_ssp585 |-> sorted[k].priority_category]]

\* lines 411-415
TopLevelReraises == [kind |-> "raised"]
TopLevelExcept == [kind |-> "nulls"]

\* lines 272-310 and 409: the six tables returned
ReturnedTables ==
    [kind |-> "tables",
     results_ssp245 |-> df_ssp245_sorted, results_ssp585 |-> df_ssp585_sorted,
     contributions_ssp245 |-> df_ssp245_sorted, contributions_ssp585 |-> df_ssp585_sorted,
     comparison_df |-> comparison_df, rank_comparison |-> rank_comparison]

\* an exception at this step: the file cannot be read or written, or neither qcut
\* nor cut can bin the column
Raises ==
    \/ p_pc \in {"read", "save"}
    \/ /\ p_pc = "categories"
       /\ \/ ~PriorityCategory(FinalScores(df_ssp245)).ok
          \/ ~PriorityCategory(FinalScores(df_ssp585)).ok

InitPipeline ==
    /\ df = <<>>
    /\ df_ssp245 = <<>>
    /\ df_ssp585 = <<>>
    /\ p_pc = "read"
    /\ NotSorted

\* lines 162-187
ReadCsv ==
    /\ OnlyScore
    /\ p_pc = "read"
    /\ df' \in Tables
    /\ p_pc' = "ssp245"
    /\ UNCHANGED <<df_ssp245, df_ssp585, df_ssp245_sorted, df_ssp585_sorted,
                   comparison_df, rank_comparison, p_return>>

\* lines 251-265
Categories ==
    /\ OnlyScore
    /\ p_pc = "categories"
    /\ ~Raises
    /\ df_ssp245' = WithCategory(df_ssp245,
                                 PriorityCategory(FinalScores(df_ssp245)).labels)
    /\ df_ssp585' = WithCategory(df_ssp585,
                                 PriorityCategory(FinalScores(df_ssp585)).labels)
    /\ p_pc' = "sort"
    /\ UNCHANGED <<df, df_ssp245_sorted, df_ssp585_sorted, comparison_df,
                   rank_comparison, p_return>>

\* lines 267-269
SortValues ==
    /\ OnlyScore
    /\ p_pc = "sort"
    /\ df_ssp245_sorted' \in sort_values(df_ssp245)
    /\ df_ssp585_sorted' \in sort_values(df_ssp585)
    /\ p_pc' = "compare"
    /\ UNCHANGED <<df, df_ssp245, df_ssp585, comparison_df, rank_comparison, p_return>>

\* lines 312-340
Compare ==
    /\ OnlyScore
    /\ p_pc = "compare"
    /\ LET base == merge(merge(SpeciesColumn(df), Scores245(df_ssp245), 1),
                         Scores585(df_ssp585), 1)
       IN  comparison_df' =
             Rows([i \in DOMAIN base |->
                     [score_difference |-> base[i].score_ssp585 - base[i].score_ssp245]
                     @@ base[i]])
    /\ p_pc' = "rank"
    /\ UNCHANGED <<df, df_ssp245, df_ssp585, df_ssp245_sorted, df_ssp585_sorted,
                   rank_comparison, p_return>>

\* lines 342-370
RankChanges ==
    /\ OnlyScore
    /\ p_pc = "rank"
    /\ LET base == merge(merge(SpeciesColumn(df), Ranks245(df_ssp245_sorted), 1),
                         Ranks585(df_ssp585_sorted), 1)
       IN  rank_comparison' =
             Rows([i \in DOMAIN base |->
                     [rank_change |-> base[i].rank_ssp245 - base[i].rank_ssp585]
                     @@ base[i]])
    /\ p_pc' = "save"
    /\ UNCHANGED <<df, df_ssp245, df_ssp585, df_ssp245_sorted, df_ssp585_sorted,
                   comparison_df, p_return>>

\* lines 372-409
SaveAndReturn ==
    /\ OnlyScore
    /\ p_pc = "save"
    /\ p_return' = ReturnedTables
    /\ p_pc' = "returned"
    /\ UNCHANGED <<df, df_ssp245, df_ssp585, df_ssp245_sorted, df_ssp585_sorted,
                   comparison_df, rank_comparison>>

\* lines 411-415
Except ==
    /\ OnlyScore
    /\ Raises
    /\ p_return' = TopLevelExcept
    /\ p_pc' = "returned"
    /\ UNCHANGED <<df, df_ssp245, df_ssp585, df_ssp245_sorted, df_ssp585_sorted,
                   comparison_df, rank_comparison>>

NextPipeline ==
    \/ ReadCsv
    \/ ScoreSsp245
    \/ ScoreSsp585
    \/ Categories
    \/ SortValues
    \/ Compare
    \/ RankChanges
    \/ SaveAndReturn
    \/ Except

(***************************************************************************)
(* Idle values of the variables a specification does not use               *)
(***************************************************************************)
IdleSearch ==
    /\ s_fn = "" /\ s_variant = 0 /\ s_retstart = 0 /\ s_count = 0
    /\ s_ids = {} /\ s_pages = {} /\ s_at = "idle" /\ s_hits = 0 /\ s_log = <<>>
    /\ s_last = ""
IdleMain ==
    /\ pc = "idle" /\ incluir_mitocondriales = "" /\ especies_con_sinonimias = <<>>
    /\ nombres_buscados = {} /\ especie = 0 /\ nombre_valido = "" /\ cursor = 0
    /\ pending = 0 /\ info_secuencias = <<>> /\ df_final = <<>> /\ lastCall = NoCall
    /\ searched = <<>> /\ fetched = 0 /\ families = <<>> /\ genera = <<>>
    /\ gcursor = 0 /\ files = {} /\ info_taxon = "" /\ respuesta = ""
IdleResolver ==
    /\ r_tree = <<>> /\ r_stack = <<>> /\ r_pc = "idle" /\ r_especies = <<>>
    /\ r_intento = 0 /\ r_visits = <<>> /\ r_last = <<>> /\ r_post = 0
IdleScore ==
    /\ df = <<>> /\ df_ssp245 = <<>> /\ df_ssp585 = <<>> /\ p_pc = "idle"
    /\ NotSorted

Init == InitMain /\ IdleSearch /\ IdleResolver /\ IdleScore
Spec == Init /\ [][Next]_vars

InitR == InitResolver /\ IdleMain /\ IdleSearch /\ IdleScore
\* the one worker thread keeps running the descent
SpecResolver == InitR /\ [][NextResolver]_vars /\ WF_vars(NextResolver)

InitP == InitScore /\ IdleMain /\ IdleSearch /\ IdleResolver
SpecScore == InitP /\ [][NextScore]_vars

InitL == InitPipeline /\ IdleMain /\ IdleSearch /\ IdleResolver
SpecPipeline == InitL /\ [][NextPipeline]_vars

InitS == InitSearch /\ IdleMain /\ IdleResolver /\ IdleScore
SpecSearch == InitS /\ [][NextSearch]_vars


(***************************************************************************)
(* Properties of the harvester, checked under Spec                         *)
(***************************************************************************)
\* rows of df_final that extract_info returned (the others are the
\* "No sequences" rows of lines 455 and 473)
AcceptedRows == { i \in DOMAIN df_final : df_final[i].ACCESSION # NA }
RecordOf(accession) == GenBank[CHOOSE u \in UIDs : GenBank[u].id = accession]
LastRecord == GenBank[lastCall.uid]

\* C1: no two accepted rows share an accession id: each accession is emitted as an
\* accepted row at most once in a run, whichever discovery methods found it.
C1_UniqueAccession ==
    \A i, j \in AcceptedRows :
        df_final[i].ACCESSION = df_final[j].ACCESSION => i = j

\* an accession registered by one method was found again by another method and
\* the second call returned no row
C1_Witness ==
    /\ lastCall.uid # 0
    /\ lastCall.result = "none"
    /\ LastRecord.id \in DOMAIN info_secuencias
    /\ info_secuencias[LastRecord.id].Synonims # lastCall.method
    /\ \E i \in AcceptedRows : df_final[i].ACCESSION = LastRecord.id

\* C2: every accepted record has length >= 590, and every accepted record classified
\* CYTB has length in 1000..1200; this holds of the rows and of the registry.
LengthInBounds(info) ==
    /\ info.NUM_BASES >= 590
    /\ info.GENE = "CYTB" => (info.NUM_BASES >= 1000 /\ info.NUM_BASES <= 1200)

C3_NoLongRowWhenExcluded ==
    incluir_mitocondriales = "no" =>
        \A i \in AcceptedRows : df_final[i].NUM_BASES <= 1300

\* descriptions that contain a denylist term, compared case-insensitively
DenylistedDescriptions ==
    { d \in Descriptions :
        \E i \in DOMAIN unwanted_terms : Contains(Lower(d), Lower(unwanted_terms[i])) }

\* C4: a record whose description contains a denylist term (case-insensitive) is
\* never returned as a row nor registered, whatever its length, gene and method.
C4_UnwantedRejected ==
    /\ \A a \in DOMAIN info_secuencias :
         RecordOf(a).description \notin DenylistedDescriptions
    /\ \A i \in AcceptedRows :
         RecordOf(df_final[i].ACCESSION).description \notin DenylistedDescriptions
    /\ (lastCall.uid # 0 /\ LastRecord.description \in DenylistedDescriptions)
         => lastCall.result \in {"none", "fetch_raised"}

\* a record of acceptable length whose description holds a denylist term in another
\* letter case went through extract_info, which returned no row
C4_Witness ==
    /\ lastCall.uid # 0
    /\ LastRecord.description = "Mus musculus COI gene and tRNA-Ser"
    /\ LastRecord.len >= 590
    /\ lastCall.result = "none"
    /\ LastRecord.id \notin DOMAIN info_secuencias
    /\ lastCall.method # FromITIS

\* names the per-species/synonym strategy is to search: the valid name and the
\* synonyms of every resolved species
NamesToSearch ==
    { especies_con_sinonimias[i].nombre_cientifico : i \in DOMAIN especies_con_sinonimias }
    \cup UNION { Range(especies_con_sinonimias[i].sinonimias) :
                   i \in DOMAIN especies_con_sinonimias }
SpeciesStrategyOver ==
    pc \in {"direct", "direct_ids", "families", "family", "family_ids",
            "genus_family", "genus", "genus_ids", "done"}

\* C6: once the per-species/synonym strategy is over, the valid name of every
\* resolved species and every synonym of every such species has been searched, each
\* distinct name exactly once.
C6_AllNamesSearchedOnce ==
    SpeciesStrategyOver =>
        \A name \in NamesToSearch :
            Cardinality({ i \in DOMAIN searched : searched[i] = name }) = 1

NoWorkDone ==
    /\ incluir_mitocondriales = ""
    /\ especies_con_sinonimias = <<>>
    /\ nombres_buscados = {} /\ searched = <<>> /\ fetched = 0
    /\ families = <<>> /\ genera = <<>>
    /\ info_secuencias = <<>>
    /\ df_final = <<>>
    /\ files = {}
RootLookupFailed == info_taxon \in {"ValueError", "RequestException"}
Affirmative == respuesta \in {"yes", "y", "si"}

\* C14: if the rank or name lookup of the root fails, or the answer to the
\* confirmation prompt is not affirmative, main has ended and there has been no
\* descent, no search, no fetch, no entry in the registry and no file; whatever
\* work there is was preceded by a successful lookup and an affirmative answer.
C14_NoWorkBeforeConfirmation ==
    /\ (RootLookupFailed \/ (info_taxon = "ok" /\ ~Affirmative))
          => (pc \in {"done", "crashed"} /\ NoWorkDone)
    /\ ~NoWorkDone => (info_taxon = "ok" /\ Affirmative)

\* the lookup succeeded, the user answered "maybe" and main ended with nothing done
C14_Witness ==
    /\ pc = "done"
    /\ info_taxon = "ok"
    /\ respuesta = "maybe"
    /\ NoWorkDone

CallMade == lastCall'.uid # 0
CalledAccession == GenBank[lastCall'.uid].id

\* C19: extract_info changes the registry only when it returns a row, and then it
\* adds exactly that row under its accession, which was not registered, and leaves
\* every other entry as it was; a call that returns no row or raises, and a fetch
\* that raises, leave the registry unchanged, and main goes on to the next
\* candidate.
C19_RegistryFrame ==
    [][ /\ lastCall'.result = "row" =>
             /\ CalledAccession \notin DOMAIN info_secuencias
             /\ DOMAIN info_secuencias' = DOMAIN info_secuencias \cup {CalledAccession}
             /\ \A a \in DOMAIN info_secuencias : info_secuencias'[a] = info_secuencias[a]
             /\ info_secuencias'[CalledAccession] = df_final'[Len(df_final')]
             /\ info_secuencias'[CalledAccession].ACCESSION = CalledAccession
             /\ Len(df_final') = Len(df_final) + 1
        /\ lastCall'.result # "row" => info_secuencias' = info_secuencias
        /\ (CallMade /\ lastCall'.result # "row") => df_final' = df_final
        /\ CallMade => (pc' # "crashed" /\ pending' = pending - 1) ]_vars

\* extract_info raised on a record without features while the registry held an
\* accession, and the registry still holds just that one
C19_Witness ==
    /\ lastCall.result = "raised"
    /\ LastRecord.id \notin DOMAIN info_secuencias
    /\ Cardinality(DOMAIN info_secuencias) = 1
    /\ pc # "crashed"

\* a description holds a variant of the list, letter case aside
MatchesVariant(description, variants) ==
    \E i \in DOMAIN variants : Contains(Lower(description), Lower(variants[i]))
\* the marker of every description: CYTB if it holds a CYTB variant, else COI if it
\* holds a COI variant, else Unknown
MarkerOf ==
    [d \in Descriptions |->
        IF MatchesVariant(d, SubSeq(gene_variants, 12, 22)) THEN "CYTB"
        ELSE IF MatchesVariant(d, SubSeq(gene_variants, 1, 11)) THEN "COI"
        ELSE "Unknown"]

\* C20: the gene of an accepted row is the marker of the record's description by
\* case-insensitive substring match, CYTB list first: CYTB if a CYTB variant
\* occurs (even if a COI variant occurs too), else COI if a COI variant occurs,
\* else Unknown.
C20_GeneClassification ==
    /\ \A i \in AcceptedRows :
         df_final[i].GENE = MarkerOf[RecordOf(df_final[i].ACCESSION).description]
    /\ \A a \in DOMAIN info_secuencias :
         info_secuencias[a].GENE = MarkerOf[RecordOf(a).description]

\* a record whose description names both COI and Cytochrome B was accepted as CYTB
C20_Witness ==
    /\ lastCall.uid # 0
    /\ lastCall.result = "row"
    /\ LastRecord.description = "Mus musculus COI and Cytochrome B genes"
    /\ df_final[Len(df_final)].GENE = "CYTB"
    /\ MarkerOf[LastRecord.description] = "CYTB"

\* the name passed to the search whose id list is being iterated
QueriedName == searched[Len(searched)]
\* the row the call of the step just taken appended
LastRow == df_final[Len(df_final)]
\* the call of the step just taken was made for an id of a synonym search
SynonymSearch == lastCall.method = FromITIS /\ pc \in {"synonyms", "synonym_ids"}

\* C21: a record kept from a hierarchy-based search is stored under the valid name
\* of the species followed by exactly one "*" when its organism, letter case
\* aside, differs from the queried name, and under the valid name alone when it
\* equals it, for a search by valid name and for a search by synonym; a record of
\* any other method is stored under its organism, without a suffix.
C21_OneMarkerSuffix ==
    lastCall.result = "row" =>
        IF lastCall.method = FromITIS
        THEN IF LowerOf(LastRecord.organism) # LowerOf(QueriedName)
             THEN LastRow.SPECIES_NAME = nombre_valido \o "*"
             ELSE LastRow.SPECIES_NAME = nombre_valido
        ELSE LastRow.SPECIES_NAME = LastRecord.organism

\* the resolver has returned its list (main wrote the species file from it), which
\* happens only after the root was resolved and the user confirmed
ResolverReturned == "Species_and_synonyms.xlsx" \in files
\* main has stopped: it returned or an exception left it
Stopped == pc \in {"done", "crashed"}
\* main has been through the direct, family and genus searches and the export
Exported ==
    /\ pc = "done"
    /\ {"Genbank_sequences.xlsx", "Genbank_rawdata.xlsx"} \subseteq files

\* C22: once the resolver has returned, whatever list it returned (the empty list
\* included) and whichever searches and fetches failed, main does not stop before
\* it has made the direct, family and genus searches and written the export files.
C22_ReachesExport == (ResolverReturned /\ Stopped) => Exported

(***************************************************************************)
(* Properties of the search functions, checked under SpecSearch            *)
(***************************************************************************)
\* the query that has just been completed by a response (not by an exception)
QueryCompleted == s_last = "ok" /\ s_at = "query"
CompletedVariant == s_variant - 1
\* position p of the completed query's result list is among the collected ids
Collected(p) ==
    \E b \in s_ids : b.variant = CompletedVariant /\ b.start <= p /\ p < b.start + b.n

\* C5: for every marker-variant query the pages requested start at offset 0 and
\* cover every position below the reported total, so every id of the query's result
\* set is collected, whatever the earlier variants of the same call returned.
C5_AllPagesCollected ==
    QueryCompleted =>
        /\ s_count > 0 => 0 \in s_pages
        /\ \A p \in 0..(s_count - 1) : Collected(p)

\* steps the run of the four search functions can still take: at most 4 per gene
\* variant, 1 per return and 100 per call not yet made
PagesLeft == IF s_at = "paging" THEN (s_count - s_retstart - 1) \div PageSize ELSE 0
SearchMeasure ==
    LET running == s_at \in {"query", "paging"}
        callsLeft == Len(SearchFns) - Len(s_log) - (IF running THEN 1 ELSE 0)
        variantsLeft == IF s_at = "query" THEN Len(gene_variants) + 1 - s_variant
                        ELSE IF s_at = "paging" THEN Len(gene_variants) - s_variant
                        ELSE 0
    IN  100 * callsLeft + 4 * variantsLeft + PagesLeft + (IF running THEN 1 ELSE 0)

\* C7: a query that throws is skipped: the ids collected so far are kept and the
\* same call goes on with the next marker variant; every step brings the run closer
\* to its end, which is reached when all four search functions have returned.
C7_ThrowSkipped ==
    /\ [][ s_last' = "threw" =>
             /\ s_ids' = s_ids
             /\ s_fn' = s_fn
             /\ s_variant' = s_variant + 1
             /\ s_at' = "query"
             /\ s_log' = s_log ]_vars
    /\ [][ SearchMeasure' < SearchMeasure /\ SearchMeasure' >= 0 ]_vars
    /\ [](SearchMeasure = 0 <=> (s_at = "returned" /\ s_log = SearchFns))
    /\ [](SearchMeasure > 0 => ENABLED NextSearch)

\* a query threw in a later strategy after ids had been collected, and the ids are
\* all returned
C7_Witness ==
    /\ s_last = "threw"
    /\ s_ids # {}
    /\ Len(s_log) >= 1
    /\ s_variant <= Len(gene_variants)

(***************************************************************************)
(* Properties of the resolver, checked under SpecResolver                  *)
(***************************************************************************)
Resolved == r_pc \in {"post", "post_lookup", "returned"}

\* C8: one synonym lookup makes at most 5 request attempts; it returns the synonyms
\* of the first attempt that succeeds and makes no further attempt; after 5 failed
\* attempts it returns an empty list, and the species stays in the resolved list
\* with that empty synonym list.
C8_SynonymRetries ==
    /\ r_intento <= 5
    /\ r_last.attempts <= 5
    /\ r_last.tsn # 0 =>
         \/ /\ r_last.attempts = r_last.failed + 1
            /\ r_last.result = SynonymList(r_last.tsn)
         \/ /\ r_last.attempts = 5
            /\ r_last.failed = 5
            /\ r_last.result = <<>>
    /\ (Resolved /\ r_post > 1) =>
         /\ r_post - 1 <= Len(r_especies)
         /\ r_especies[r_post - 1].tsn = r_last.tsn
         /\ r_especies[r_post - 1].sinonimias = r_last.result

\* the resolver has returned; the last lookup failed 5 times for a species that has
\* synonyms, and the species is in the list with no synonyms
C8_Witness ==
    /\ r_pc = "returned"
    /\ r_last.failed = 5
    /\ SynonymList(r_last.tsn) # <<>>
    /\ r_especies[Len(r_especies)].tsn = r_last.tsn
    /\ r_especies[Len(r_especies)].sinonimias = <<>>

RECURSIVE ProperAncestors(_, _)
ProperAncestors(tree, n) ==
    IF tree[n].parent = 0 THEN {}
    ELSE {tree[n].parent} \cup ProperAncestors(tree, tree[n].parent)

HigherRank(tree, n) == tree[n].rank \in {"Order", "Genus"}
\* nodes whose proper ancestors are all of a rank above species
ReachedNodes ==
    { n \in DOMAIN r_tree : \A a \in ProperAncestors(r_tree, n) : HigherRank(r_tree, a) }
ReachedSpecies == { n \in ReachedNodes : r_tree[n].rank = "Species" }

\* C9: on a tree-shaped hierarchy the descent terminates, requests the children of
\* no node twice and of no species node at all, and returns exactly one record for
\* every species node reached through higher-rank nodes; a higher-rank node without
\* children is expanded and adds nothing.
C9_NoRevisit ==
    /\ \A n \in DOMAIN r_tree : r_visits[n] <= 1
    /\ \A n \in DOMAIN r_tree : r_tree[n].rank = "Species" => r_visits[n] = 0
    /\ Resolved =>
         /\ Len(r_especies) = Cardinality(ReachedSpecies)
         /\ { r_especies[i].tsn : i \in DOMAIN r_especies } = ReachedSpecies
         /\ \A n \in ReachedNodes : HigherRank(r_tree, n) => r_visits[n] = 1

C9_Descent ==
    /\ []C9_NoRevisit
    /\ <>(r_pc \in {"returned", "raised"})

\* a descent has returned a species, went through a genus without children and
\* left a subspecies unvisited
C9_Witness ==
    /\ r_pc = "returned"
    /\ Len(r_especies) >= 1
    /\ \E n \in DOMAIN r_tree :
         /\ r_tree[n].rank = "Genus"
         /\ r_visits[n] = 1
         /\ \A m \in DOMAIN r_tree : r_tree[m].parent # n
    /\ \E n \in DOMAIN r_tree : r_tree[n].rank = "Subspecies"

(***************************************************************************)
(* Properties of the scorer, checked under SpecScore                       *)
(***************************************************************************)
ScoredRows == Range(df_ssp245) \cup Range(df_ssp585)
AbsSum(r) ==
    r.iucn_contribution_abs + r.area_loss_contribution_abs
    + r.eoo_contribution_abs + r.human_footprint_contribution_abs
PercentSum(r) ==
    r.iucn_contribution + r.area_loss_contribution
    + r.eoo_contribution + r.human_footprint_contribution

\* C10: in every row of both scenarios each absolute contribution is the score
\* times 0.25, the four of them sum to final_score, and the four percentage
\* contributions, rounded to 2 decimals, sum to 100 within 0.1.
C10_ContributionsSum ==
    \A r \in ScoredRows :
        /\ r.iucn_contribution_abs = 25 * r.iucn_score
        /\ r.area_loss_contribution_abs = 25 * r.area_loss_score
        /\ r.eoo_contribution_abs = 25 * r.eoo_score
        /\ r.human_footprint_contribution_abs = 25 * r.human_footprint_score
        /\ AbsSum(r) = r.final_score
        /\ PercentSum(r) >= 10000 - 10
        /\ PercentSum(r) <= 10000 + 10

\* both scenarios are scored and a row with scores 7, 5, 5, 5 has percentages that
\* sum to 100.01
C10_Witness ==
    /\ p_pc = "categories"
    /\ \E r \in Range(df_ssp585) :
         /\ r.iucn_score = 7 /\ r.area_loss_score = 5
         /\ r.eoo_score = 5 /\ r.human_footprint_score = 5
         /\ r.final_score = 550
         /\ PercentSum(r) = 10001

\* the banding of a percentage and of an area, as the specification states them
PercentBand(v) ==
    IF v > 80 THEN 5
    ELSE IF 60 < v /\ v <= 80 THEN 4
    ELSE IF 40 < v /\ v <= 60 THEN 3
    ELSE IF 20 < v /\ v <= 40 THEN 2
    ELSE 1
AreaBand(v) ==
    IF v < 100 THEN 5
    ELSE IF 100 <= v /\ v < 5000 THEN 4
    ELSE IF 5000 <= v /\ v < 20000 THEN 3
    ELSE IF 20000 <= v /\ v < 50000 THEN 2
    ELSE 1
\* what a cell of a metric column is worth: a number, a text that reads as the
\* number 85, or nothing (missing, or a text that is no number)
Unparseable(cell) == cell.kind = "nan" \/ (cell.kind = "str" /\ cell.val = "abc")
ValueOf(cell) == IF cell.kind = "num" THEN cell.val ELSE 85
ExpectedPercentScore(cell) == IF Unparseable(cell) THEN 3 ELSE PercentBand(ValueOf(cell))
ExpectedAreaScore(cell) == IF Unparseable(cell) THEN 3 ELSE AreaBand(ValueOf(cell))

\* C15: the area-loss score and the human-footprint score use one banding: 5 above
\* 80, 4 in (60, 80], 3 in (40, 60], 2 in (20, 40], 1 otherwise, 3 for a missing or
\* unparseable input; so both give the same score for the same input.
C15_SameBanding ==
    /\ \A i \in DOMAIN df_ssp245 :
         /\ df_ssp245[i].area_loss_score = ExpectedPercentScore(df[i].area_loss_ssp245)
         /\ df_ssp245[i].human_footprint_score = ExpectedPercentScore(df[i].human_footprint)
         /\ df[i].area_loss_ssp245 = df[i].human_footprint
              => df_ssp245[i].area_loss_score = df_ssp245[i].human_footprint_score
    /\ \A i \in DOMAIN df_ssp585 :
         /\ df_ssp585[i].area_loss_score = ExpectedPercentScore(df[i].area_loss_ssp585)
         /\ df_ssp585[i].human_footprint_score = ExpectedPercentScore(df[i].human_footprint)
         /\ df[i].area_loss_ssp585 = df[i].human_footprint
              => df_ssp585[i].area_loss_score = df_ssp585[i].human_footprint_score

\* a row with 80 in both columns scored 4 twice in ssp245, and its unparseable
\* ssp585 area loss scored 3
C15_Witness ==
    /\ p_pc = "categories"
    /\ df[1].area_loss_ssp245 = Num(80) /\ df[1].human_footprint = Num(80)
    /\ df_ssp245[1].area_loss_score = 4 /\ df_ssp245[1].human_footprint_score = 4
    /\ df[1].area_loss_ssp585 = Txt("abc")
    /\ df_ssp585[1].area_loss_score = 3

NumericAreas == { c \in EooCells : c.kind = "num" }

EooScoreNeverIncreases ==
    \A a, b \in NumericAreas :
        a.val <= b.val => calculate_eoo_score(a) >= calculate_eoo_score(b)

\* C16: the extent-of-occurrence score is 5 below 100, 4 in [100, 5000), 3 in
\* [5000, 20000), 2 in [20000, 50000), 1 from 50000 on, 3 for a missing or
\* unparseable input, and over numeric inputs it never increases with the area.
C16_EooBanding ==
    /\ \A i \in DOMAIN df_ssp245 :
         df_ssp245[i].eoo_score = ExpectedAreaScore(df[i].eoo)
    /\ \A i \in DOMAIN df_ssp585 :
         df_ssp585[i].eoo_score = ExpectedAreaScore(df[i].eoo)
    /\ EooScoreNeverIncreases

\* an area of exactly 5000 scored 3 in both scenarios
C16_Witness ==
    /\ p_pc = "categories"
    /\ df[1].eoo = Num(5000)
    /\ df_ssp245[1].eoo_score = 3
    /\ df_ssp585[1].eoo_score = 3

KnownCodes == {"CR", "EN", "VU", "NT", "DD", "LC", "NE"}
AllMissing(row, area_loss) ==
    /\ row.iucn_status = NaN /\ area_loss = NaN
    /\ row.eoo = NaN /\ row.human_footprint = NaN

BlankStatusScoresThree == calculate_iucn_score(Txt("")) = 3

\* C17: for every input row the status score is an integer in 1..7 (3 for a blank
\* or unknown code), the other three scores are integers in 1..5, final_score is
\* between 1.0 and 5.5 and so never 0, and a row with all four metrics missing has
\* final_score 3.0.
C17_ScoreRanges ==
    /\ \A r \in Range(df_ssp245) \cup Range(df_ssp585) :
         /\ r.iucn_score \in 1..7
         /\ r.area_loss_score \in 1..5
         /\ r.eoo_score \in 1..5
         /\ r.human_footprint_score \in 1..5
         /\ r.final_score >= 100 /\ r.final_score <= 550
         /\ r.final_score # 0
    /\ \A i \in DOMAIN df_ssp245 :
         /\ (df[i].iucn_status = NaN \/ df[i].iucn_status = Txt("XX"))
              => df_ssp245[i].iucn_score = 3
         /\ AllMissing(df[i], df[i].area_loss_ssp245) => df_ssp245[i].final_score = 300
    /\ \A i \in DOMAIN df_ssp585 :
         AllMissing(df[i], df[i].area_loss_ssp585) => df_ssp585[i].final_score = 300
    /\ BlankStatusScoresThree

\* a row with an unknown status code and its three metrics missing scored 3.0, with
\* a status score of 3
C17_Witness ==
    /\ p_pc = "categories"
    /\ df[1].iucn_status = Txt("XX")
    /\ df[1].area_loss_ssp585 = NaN /\ df[1].eoo = NaN /\ df[1].human_footprint = NaN
    /\ df_ssp585[1].iucn_score = 3
    /\ df_ssp585[1].final_score = 300

(***************************************************************************)
(* Properties of the pipeline, checked under SpecPipeline                  *)
(***************************************************************************)
Sorted == p_pc \in {"compare", "rank", "save"} \/ p_return.kind = "tables"
\* rank of the row that had label i before the sort
RankOf(sorted, i) == CHOOSE k \in DOMAIN sorted : sorted[k].index = i

StableDescending(table, sorted) ==
    /\ Len(sorted) = Len(table)
    /\ \A i \in DOMAIN table : \E k \in DOMAIN sorted : sorted[k].index = i
    /\ \A i, j \in DOMAIN table :
         /\ table[i].final_score > table[j].final_score
              => RankOf(sorted, i) < RankOf(sorted, j)
         /\ (table[i].final_score = table[j].final_score /\ i < j)
              => RankOf(sorted, i) < RankOf(sorted, j)

\* C11: in each scenario the ranking is a stable descending sort by final_score:
\* the ranks are 1..N, each used once, a row with a higher final_score has a smaller
\* rank, and rows of equal final_score keep the order they had in the input table.
C11_StableRanking ==
    Sorted => /\ StableDescending(df_ssp245, df_ssp245_sorted)
              /\ StableDescending(df_ssp585, df_ssp585_sorted)

Categorised == p_pc \in {"sort", "compare", "rank", "save"} \/ p_return.kind = "tables"
ScenarioTables == {df_ssp245, df_ssp585}
LowestScore(table) ==
    CHOOSE v \in Range(FinalScores(table)) : \A w \in Range(FinalScores(table)) : v <= w
HighestScore(table) ==
    CHOOSE v \in Range(FinalScores(table)) : \A w \in Range(FinalScores(table)) : v >= w
\* the label of equal-width binning: the middle one when the column has one value,
\* otherwise the fifth of the range min..max the score lies in
EqualWidthLabel(table, i) ==
    LET lo == LowestScore(table)
        hi == HighestScore(table)
        x == table[i].final_score
    IN  IF lo = hi THEN "Media"
        ELSE IF x = lo THEN "Muy baja"
        ELSE Labels[CHOOSE j \in 1..5 :
                      (j - 1) * (hi - lo) < 5 * (x - lo) /\ 5 * (x - lo) <= j * (hi - lo)]

\* C12: when the quantile edges of a scenario's final-score column collapse, every
\* row still gets one of the 5 labels, the one of equal-width binning; the category
\* step of a table with rows never ends the run, so a tuple of nulls is only
\* returned for an unreadable input, an empty table or a failed export.
C12_QuantileFallback ==
    /\ [](Categorised =>
            \A t \in ScenarioTables : \A i \in DOMAIN t :
                /\ t[i].priority_category \in Range(Labels)
                /\ EdgesCollapse(FinalScores(t)) =>
                       t[i].priority_category = EqualWidthLabel(t, i))
    /\ [][ (p_pc = "categories" /\ Len(df) > 0) => p_pc' = "sort" ]_vars
    /\ [][ p_return'.kind = "nulls" => (p_pc \in {"read", "save"} \/ Len(df) = 0) ]_vars

\* a table of 3 rows with one final score in both scenarios went through the
\* fallback, every row is labelled Media and the six tables are returned
C12_Witness ==
    /\ p_return.kind = "tables"
    /\ Len(df) = 3
    /\ \A t \in ScenarioTables :
         /\ LowestScore(t) = HighestScore(t)
         /\ EdgesCollapse(FinalScores(t))
         /\ \A i \in DOMAIN t : t[i].priority_category = "Media"

\* C13: prioritize_species never raises to its caller: an exception at a step (the
\* input cannot be read, no binning of an empty table, an export fails) ends it with
\* a tuple of six nulls, and when no step fails it returns its six tables.
C13_NeverRaises ==
    /\ [](p_return.kind \in {"running", "nulls", "tables"})
    /\ [](p_pc = "returned" <=> p_return.kind \in {"nulls", "tables"})
    /\ [](Len(df) = 0 /\ p_pc = "returned" => p_return.kind = "nulls")
    /\ [](p_return.kind = "tables" =>
            /\ DOMAIN p_return = {"kind", "results_ssp245", "results_ssp585",
                                  "contributions_ssp245", "contributions_ssp585",
                                  "comparison_df", "rank_comparison"}
            /\ Len(p_return.results_ssp245) = Len(df)
            /\ Len(p_return.results_ssp585) = Len(df)
            /\ p_return.comparison_df = comparison_df
            /\ p_return.rank_comparison = rank_comparison)
    /\ [][ p_pc = "save" => p_pc' = "returned" ]_vars
    /\ [][ p_return' # p_return => p_return = [kind |-> "running"] ]_vars

\* an export failed after every table had been computed, and six nulls came back
C13_Witness ==
    /\ p_return.kind = "nulls"
    /\ Len(df) > 0
    /\ Len(df_ssp585_sorted) = Len(df)
    /\ DOMAIN rank_comparison # {}

Compared == p_pc = "save" \/ p_return.kind = "tables"
\* the comparison row and the rank-change row of input row i: its own results of
\* the two scenarios
OwnComparison(i) ==
    [species_name |-> df[i].species_name,
     score_ssp245 |-> df_ssp245[i].final_score,
     category_ssp245 |-> df_ssp245[i].priority_category,
     score_ssp585 |-> df_ssp585[i].final_score,
     category_ssp585 |-> df_ssp585[i].priority_category,
     score_difference |-> df_ssp585[i].final_score - df_ssp245[i].final_score]
OwnRankChange(i) ==
    [species_name |-> df[i].species_name,
     rank_ssp245 |-> RankOf(df_ssp245_sorted, i),
     category_ssp245 |-> df_ssp245[i].priority_category,
     rank_ssp585 |-> RankOf(df_ssp585_sorted, i),
     category_ssp585 |-> df_ssp585[i].priority_category,
     rank_change |-> RankOf(df_ssp245_sorted, i) - RankOf(df_ssp585_sorted, i)]

\* C18: the comparison table and the rank-change table hold exactly one row per
\* input row, pairing the row's own ssp245 result with its own ssp585 result, also
\* when a species name occurs on more than one input row.
C18_OneRowPerInputRow ==
    Compared =>
        /\ NumberOfRows(comparison_df) = Len(df)
        /\ NumberOfRows(rank_comparison) = Len(df)
        /\ comparison_df = Rows([i \in DOMAIN df |-> OwnComparison(i)])
        /\ rank_comparison = Rows([i \in DOMAIN df |-> OwnRankChange(i)])
====
